---- MODULE Spec2Model ----
(***************************************************************************)
(* Monobank synchronization engine of financial_app:                       *)
(*   api/src/modules/monobank/monobank.service.ts      (MonobankService)   *)
(*   api/src/modules/monobank/monobank.controller.ts   (MonobankController)*)
(*   api/src/modules/monobank/monobank-api.service.ts  (MonobankApiService)*)
(*   api/src/common/services/crypto.service.ts         (CryptoService)     *)
(* Every await of a handler is one step of the request that runs it; the   *)
(* database tables and the upstream API are shared by all requests.        *)
(***************************************************************************)
EXTENDS Integers, Sequences, FiniteSets, Bags, TLC

(***************************************************************************)
(* Program constants.                                                      *)
(***************************************************************************)
DaySeconds == 86400
FullSyncDays == 90
ChunkDays == 31
FallbackDays == 31
PARTS_COUNT == 3

(***************************************************************************)
(* Bounds of the model.                                                    *)
(***************************************************************************)
\* number of distinct readings of Date.now() a sync may get
NumNows == 2
\* number of distinct initialisation vectors randomBytes may return
NumIvs == 2
\* splitIntoChunks inputs: timestamps within this many days, and the
\* chunkDays argument up to this value
MaxSplitDays == 4
MaxSplitChunkDays == 3
\* the chunks of a run of the loop of splitIntoChunks that are recorded
MaxLoopChunks == 6
\* the returned syncs whose results are kept
MaxRuns == 2
\* runs of the migration script
MaxMigrations == 2

(***************************************************************************)
(* The environment: users, request slots, the clock and what the upstream  *)
(* API holds.                                                              *)
(***************************************************************************)
AllUsers == {"u1", "u2"}
AllTasks == {1, 2}
\* the users and request slots of Spec
Users == {"u1"}
Tasks == {1}
\* the users and request slots of SpecConc
ConcUsers == {"u1"}
ConcTasks == {1, 2}

BaseNow == 100 * DaySeconds
Nows == {BaseNow + k : k \in 0..(NumNows - 1)}
Ivs == 0..(NumIvs - 1)

\* tokens the upstream accepts, and one it rejects with 401
ValidTokens == {"tokA", "tokB", "tokC", "tokD"}
AllTokens == ValidTokens \cup {"bad"}

\* GET /personal/client-info: the accounts of the token's client
UpstreamAccounts(token) ==
  IF token = "tokA" THEN <<"a1", "a2">>
  ELSE IF token = "tokB" THEN <<"b1", "b2">>
  ELSE IF token = "tokC" THEN <<"c1">>
  ELSE IF token = "tokD" THEN <<"d1", "d2">>
  ELSE <<>>

\* the statement items the upstream holds (id, account, time); the other
\* fields of an item (description, amount, balance, hold, ...) travel
\* together and are carried by `hold`
UpstreamTxs ==
  { [id |-> "t1", account |-> "a1", time |-> BaseNow - 31 * DaySeconds],
    [id |-> "t2", account |-> "a1", time |-> BaseNow - 30 * DaySeconds],
    [id |-> "t3", account |-> "a2", time |-> BaseNow - 1 * DaySeconds],
    [id |-> "t4", account |-> "b1", time |-> BaseNow - 1 * DaySeconds],
    [id |-> "t5", account |-> "c1", time |-> BaseNow - FullSyncDays * DaySeconds],
    [id |-> "t6", account |-> "c1", time |-> BaseNow - 1 * DaySeconds],
    [id |-> "t7", account |-> "d1",
     time |-> BaseNow - (FullSyncDays - ChunkDays) * DaySeconds],
    [id |-> "t8", account |-> "d1", time |-> BaseNow] }

TxRank(id) ==
  CASE id = "t1" -> 1 [] id = "t2" -> 2 [] id = "t3" -> 3 [] id = "t4" -> 4
    [] id = "t5" -> 5 [] id = "t6" -> 6 [] id = "t7" -> 7 [] OTHER -> 8

RECURSIVE SortByRank(_)
SortByRank(S) ==
  IF S = {} THEN <<>>
  ELSE LET x == CHOOSE y \in S : \A z \in S : TxRank(y.id) <= TxRank(z.id)
       IN <<x>> \o SortByRank(S \ {x})

\* GET /personal/statement/{account}/{from}/{to}: the items of the account
\* whose time lies in the window
Statement(account, from, to) ==
  SortByRank({x \in UpstreamTxs : x.account = account /\ from <= x.time /\ x.time <= to})

(***************************************************************************)
(* CryptoService.  A stored value is the list of its colon-separated       *)
(* fields.  A field is the hex digits of some bytes (the nonce `iv`, the   *)
(* tag or the ciphertext of an encryption) followed by a tail: nothing, one*)
(* more hex digit "f", or characters "zz" that are not hex digits; or it   *)
(* is `raw`, a text that does not start with two hex digits.               *)
(***************************************************************************)
Field(kind, iv, text) == [kind |-> kind, iv |-> iv, text |-> text, tail |-> ""]

WithTail(f, tail) == [f EXCEPT !.tail = tail]

\* the ciphertext has the length of the plaintext: for "" it is no byte,
\* whatever the nonce
Ciphertext(plaintext, iv) ==
  IF plaintext = "" THEN Field("ct", 0, "") ELSE Field("ct", iv, plaintext)

\* the field is the empty string
IsEmptyField(f) == f.kind = "ct" /\ f.text = "" /\ f.tail = ""

\* /^[0-9a-f]+$/i.test(p)
IsHex(f) == f.kind # "raw" /\ f.tail # "zz" /\ ~IsEmptyField(f)

NoBytes == [kind |-> "empty", iv |-> 0, text |-> ""]

\* Buffer.from(p, 'hex'): the bytes of the hex digits up to the first
\* character that is not one, a last single digit dropped
Bytes(f) ==
  IF f.kind = "raw" \/ (f.kind = "ct" /\ f.text = "") THEN NoBytes
  ELSE [kind |-> f.kind, iv |-> f.iv, text |-> f.text]

\* a plaintext kept as it is (a legacy row): one field, not hex
Plain(token) == <<Field("raw", 0, token)>>

\* mutant of encrypt: the nonce written is not the one used
encryptOtherIv(plaintext, iv) ==
  <<Field("iv", iv + 1, ""), Field("tag", iv, plaintext), Ciphertext(plaintext, iv)>>

\* mutant of encrypt: one nonce for every call
encryptFixedIv(plaintext, iv) ==
  <<Field("iv", 0, ""), Field("tag", 0, plaintext), Ciphertext(plaintext, 0)>>

\* `${iv hex}:${authTag hex}:${encrypted hex}`, iv the value of randomBytes
encrypt(plaintext, iv) ==
  <<Field("iv", iv, ""), Field("tag", iv, plaintext), Ciphertext(plaintext, iv)>>

\* mutant of isEncrypted: an empty field counts as hex
isEncryptedOrEmpty(value) ==
  Len(value) = PARTS_COUNT
    /\ \A i \in 1..Len(value) : IsHex(value[i]) \/ IsEmptyField(value[i])

isEncrypted(value) ==
  Len(value) = PARTS_COUNT /\ \A i \in 1..Len(value) : IsHex(value[i])

\* "FormatError" for the Error decrypt throws itself, "IntegrityError" for
\* an error thrown by createDecipheriv, setAuthTag or final, else the
\* plaintext: the tag verifies when it is the tag of the ciphertext bytes
\* under the nonce bytes
decrypt(stored) ==
  IF Len(stored) # PARTS_COUNT THEN "FormatError"
  ELSE LET iv == Bytes(stored[1])
           authTag == Bytes(stored[2])
           encrypted == Bytes(stored[3])
       IN IF iv.kind # "iv" THEN "IntegrityError"
          ELSE IF encrypted = NoBytes
          THEN IF authTag = Bytes(Field("tag", iv.iv, "")) THEN "" ELSE "IntegrityError"
          ELSE IF encrypted.kind = "ct" /\ encrypted.iv = iv.iv
                    /\ authTag = Bytes(Field("tag", iv.iv, encrypted.text))
          THEN encrypted.text
          ELSE "IntegrityError"

\* mutant of ReadToken: every stored value is handed to decrypt
ReadTokenDecryptAll(rawToken) == decrypt(rawToken)

\* lines 135-138, 308-311, 455-458
ReadToken(rawToken) ==
  IF isEncrypted(rawToken) THEN decrypt(rawToken)
  ELSE IF Len(rawToken) = 1 /\ rawToken[1].kind = "raw" THEN rawToken[1].text
  ELSE "stored"

(***************************************************************************)
(* splitIntoChunks                                                         *)
(***************************************************************************)
Min(a, b) == IF a < b THEN a ELSE b

\* mutant of SplitLoop: the end of a chunk is not capped by toTimestamp
RECURSIVE SplitLoopUncapped(_, _, _)
SplitLoopUncapped(currentFrom, toTimestamp, chunkSeconds) ==
  IF currentFrom < toTimestamp
  THEN LET currentTo == currentFrom + chunkSeconds
       IN <<[from |-> currentFrom, to |-> currentTo]>>
            \o SplitLoopUncapped(currentTo, toTimestamp, chunkSeconds)
  ELSE <<>>

RECURSIVE SplitLoop(_, _, _)
SplitLoop(currentFrom, toTimestamp, chunkSeconds) ==
  IF currentFrom < toTimestamp
  THEN LET currentTo == Min(currentFrom + chunkSeconds, toTimestamp)
       IN <<[from |-> currentFrom, to |-> currentTo]>>
            \o SplitLoop(currentTo, toTimestamp, chunkSeconds)
  ELSE <<>>

splitIntoChunks(fromTimestamp, toTimestamp, chunkDays) ==
  SplitLoop(fromTimestamp, toTimestamp, chunkDays * DaySeconds)

(***************************************************************************)
(* State.                                                                  *)
(***************************************************************************)
VARIABLES
  users,      \* table User: the clerkIds that have a row
  tokens,     \* table MonobankToken: rows [userId, token], userId unique
  accounts,   \* table Account: rows [userId, accountId], the pair unique
  txs,        \* table Transaction: a bag of rows, monobankId unique
  task,       \* per request slot: the sync or webhook-setup request it runs
  http,       \* the saveToken / webhook request being answered, if any
  split,      \* an application of splitIntoChunks: its arguments and result
  loop,       \* a run of the while loop of splitIntoChunks, step by step
  runs,       \* the results of the full syncs that returned, oldest first
  gw,         \* a call of MonobankApiService: the upstream's answer, the outcome
  vault,      \* applications of CryptoService: inputs and results
  mig         \* the token-encryption migration script: where a run stands,
              \* its counts, and the rows encrypted by all runs so far

vars == <<users, tokens, accounts, txs, task, http, split, loop, runs, gw, vault, mig>>

IdleTask ==
  [ pc |-> "idle", kind |-> "none", user |-> "none", token |-> "none",
    accts |-> <<>>, ai |-> 0, ranges |-> <<>>, ci |-> 0, pending |-> <<>>,
    cursor |-> 0, from |-> 0, to |-> 0, fallback |-> FALSE,
    accountsCount |-> 0, totalTransactions |-> 0,
    calls |-> 0, waited |-> FALSE, reqs |-> <<>>,
    fetched |-> 0, attempts |-> 0, err |-> "none", at |-> "none" ]

\* saveToken and the webhook handler are one step each; `http` holds the
\* request, the status of its response and the line logged last until the
\* response is sent, which comes before any other step
NoResponse == [op |-> "none", status |-> 0, log |-> "none", req |-> [none |-> TRUE]]

Response(op, status, log, req) == [op |-> op, status |-> status, log |-> log, req |-> req]

Ready == http = NoResponse
NoSplit == [fromTimestamp |-> 0, toTimestamp |-> 0, chunkDays |-> 1, done |-> FALSE, chunks |-> <<>>]

NoLoop ==
  [ fromTimestamp |-> 0, toTimestamp |-> 0, chunkDays |-> 1,
    currentFrom |-> 0, chunks |-> <<>>, done |-> TRUE ]

NoCall == [op |-> "none"]

NoVault == [op |-> "none", input |-> <<>>, iv |-> 0, result |-> <<>>, prev |-> <<>>]

\* no run of the migration script yet
NoMigration ==
  [ pc |-> "idle", todo |-> <<>>, found |-> 0, encrypted |-> 0, skipped |-> 0,
    changed |-> FALSE, run |-> 0, migrated |-> 0 ]

Init ==
  /\ users = {}
  /\ tokens = {}
  /\ accounts = {}
  /\ txs = EmptyBag
  /\ task = [t \in AllTasks |-> IdleTask]
  /\ http = NoResponse
  /\ split = NoSplit
  /\ loop = NoLoop
  /\ runs = <<>>
  /\ gw = NoCall
  /\ vault = NoVault
  /\ mig = NoMigration

(***************************************************************************)
(* Table operations (Prisma).                                              *)
(***************************************************************************)
TokenOf(u) == {r \in tokens : r.userId = u}

HasToken(u) == u \in users /\ TokenOf(u) # {}

RawToken(u) == (CHOOSE r \in TokenOf(u) : TRUE).token

\* mutant of TokenUpsert: a create in place of the upsert
TokenCreate(table, u, stored) == table \cup {[userId |-> u, token |-> stored]}

\* prisma.monobankToken.upsert, where: { userId }
TokenUpsert(table, u, stored) ==
  {r \in table : r.userId # u} \cup {[userId |-> u, token |-> stored]}

AccountRow(u, accountId) == [userId |-> u, accountId |-> accountId]

\* prisma.account.upsert, where: { userId_accountId }
AccountUpsert(table, u, accountId) == table \cup {AccountRow(u, accountId)}

Rows(table) == BagToSet(table)

\* mutant of TransactionUpsert: a create in place of the upsert
TransactionCreate(table, item, hold, account) ==
  table (+) SetToBag({[ monobankId |-> item.id, userId |-> account.userId,
                        account |-> account, time |-> item.time, hold |-> hold ]})

\* mutant of TransactionUpsert: a row that holds the id already is left as
\* it is (an insert that skips duplicates)
TransactionKeepFirst(table, item, hold, account) ==
  IF \E r \in Rows(table) : r.monobankId = item.id
  THEN table
  ELSE table (+) SetToBag({[ monobankId |-> item.id, userId |-> account.userId,
                             account |-> account, time |-> item.time, hold |-> hold ]})

\* mutant of TransactionUpsert: the update also sets the owner and the
\* account of the row to those of the caller
TransactionUpsertReassign(table, item, hold, account) ==
  LET hit == {r \in Rows(table) : r.monobankId = item.id}
      row == [ monobankId |-> item.id, userId |-> account.userId,
               account |-> account, time |-> item.time, hold |-> hold ]
  IN IF hit # {}
     THEN (table (-) SetToBag({CHOOSE r \in hit : TRUE})) (+) SetToBag({row})
     ELSE table (+) SetToBag({row})

\* prisma.transaction.upsert, where: { monobankId }: the row with the id is
\* updated in place (its owner kept), and a row is created when none has it
TransactionUpsert(table, item, hold, account) ==
  LET hit == {r \in Rows(table) : r.monobankId = item.id}
  IN IF hit # {}
     THEN LET old == CHOOSE r \in hit : TRUE
          IN (table (-) SetToBag({old}))
               (+) SetToBag({[old EXCEPT !.time = item.time, !.hold = hold]})
     ELSE table (+) SetToBag({[ monobankId |-> item.id, userId |-> account.userId,
                                account |-> account, time |-> item.time, hold |-> hold ]})

\* prisma.transaction.findFirst, where: { userId }, orderBy: { time: 'desc' }
UserTxs(u) == {r \in Rows(txs) : r.userId = u}

LastTxTime(u) == CHOOSE m \in {r.time : r \in UserTxs(u)} : \A r \in UserTxs(u) : r.time <= m

(***************************************************************************)
(* Requests.  A request slot runs one handler call at a time; its record   *)
(* holds the handler's local variables and where it stands.                *)
(***************************************************************************)
Set(t, r) == task' = [task EXCEPT ![t] = r]

Raise(r, err) == [r EXCEPT !.pc = "raised", !.err = err, !.at = r.pc]

\* an upstream call is made: counted, and no wait has followed it yet
Called(r) == [r EXCEPT !.calls = @ + 1, !.waited = FALSE]

DecryptFails(rawToken) ==
  isEncrypted(rawToken) /\ decrypt(rawToken) \in {"FormatError", "IntegrityError"}

\* a call of syncTransactions(clerkId) about to run its first statement
FullSyncCall(u) == [IdleTask EXCEPT !.pc = "fullFind", !.kind = "full", !.user = u]

\* MonobankController: POST /monobank/sync
CtlSyncTransactions(t, u) ==
  /\ Ready
  /\ task[t].pc = "idle"
  /\ Set(t, FullSyncCall(u))
  /\ UNCHANGED <<users, tokens, accounts, txs, http, split, loop, runs, gw, vault, mig>>

\* MonobankController: POST /monobank/sync/incremental
CtlSyncIncrementalTransactions(t, u) ==
  /\ Ready
  /\ task[t].pc = "idle"
  /\ Set(t, [IdleTask EXCEPT !.pc = "incFind", !.kind = "inc", !.user = u])
  /\ UNCHANGED <<users, tokens, accounts, txs, http, split, loop, runs, gw, vault, mig>>

\* MonobankController: POST /monobank/webhook/setup
CtlSetupWebhook(t, u) ==
  /\ Ready
  /\ task[t].pc = "idle"
  /\ Set(t, [IdleTask EXCEPT !.pc = "setupFind", !.kind = "setup", !.user = u])
  /\ UNCHANGED <<users, tokens, accounts, txs, http, split, loop, runs, gw, vault, mig>>

\* the response is sent (the result, or the raised error) and the slot is free
Return(t) ==
  /\ Ready
  /\ task[t].pc \in {"done", "raised"}
  /\ Set(t, IdleTask)
  /\ UNCHANGED <<users, tokens, accounts, txs, http, split, loop, runs, gw, vault, mig>>

RECURSIVE SumStatements(_)
SumStatements(reqs) ==
  IF Len(reqs) = 0 THEN 0
  ELSE Len(Statement(Head(reqs).account, Head(reqs).from, Head(reqs).to))
         + SumStatements(Tail(reqs))

\* a full sync that returned its result with no failure: every item the
\* upstream holds for its requests was fetched, and every upsert succeeded
CleanFullRun(r) ==
  /\ r.kind = "full"
  /\ r.pc = "done"
  /\ r.fetched = SumStatements(r.reqs)
  /\ r.totalTransactions = r.attempts

\* the upstream items inside the window [now - 90 days, now] of a sync
InWindow(r) ==
  {x \in UpstreamTxs : /\ \E i \in 1..Len(r.accts) : x.account = r.accts[i]
                       /\ r.from <= x.time /\ x.time <= r.to}

\* the upstream items that two of the statement requests of a sync return
ReturnedTwice(r) ==
  {x \in UpstreamTxs :
     \E i \in 1..Len(r.reqs), j \in 1..Len(r.reqs) :
       /\ i # j
       /\ r.reqs[i].account = x.account /\ r.reqs[j].account = x.account
       /\ r.reqs[i].from <= x.time /\ x.time <= r.reqs[i].to
       /\ r.reqs[j].from <= x.time /\ x.time <= r.reqs[j].to}

\* the items that lie in the windows of the statement requests of a sync
Delivered(r) ==
  {x \in UpstreamTxs :
     \E i \in 1..Len(r.reqs) :
       /\ x.account = r.reqs[i].account
       /\ r.reqs[i].from <= x.time /\ x.time <= r.reqs[i].to}

\* a sync that returned after fetching every statement it asked for and
\* saving every item
SavedAll(r) ==
  /\ r.kind \in {"full", "inc"} /\ r.pc = "done"
  /\ r.fetched = SumStatements(r.reqs)
  /\ r.totalTransactions = r.attempts

\* a sync that returned after a statement request of it failed, every
\* item it did fetch being saved
FetchFailed(r) ==
  /\ r.kind \in {"full", "inc"} /\ r.pc = "done"
  /\ r.fetched < SumStatements(r.reqs)
  /\ r.totalTransactions = r.attempts

\* what is kept of a sync that returns: whether the Transaction table is
\* empty at that moment and
\*  - for a full sync without failure, the transactionsCount and the
\*    accountsCount it returns, the number of accounts the upstream listed,
\*    the items of its window, those of them that two of its requests
\*    returned, and the number of rows of the Transaction table;
\*  - for a full sync with a failed statement request that saved some
\*    item, the ids in the windows of its requests that are not stored;
\*  - for an incremental sync without failure, the ids that are stored
SyncResult(r) ==
  LET other == [ kind |-> r.kind, clean |-> FALSE, ok |-> FALSE, fetchFailed |-> FALSE,
                 transactionsCount |-> 0, accountsCount |-> 0, listed |-> 0,
                 window |-> {}, twice |-> {}, stored |-> 0,
                 lost |-> {}, ids |-> {}, empty |-> (txs = EmptyBag) ]
      ids == {y.monobankId : y \in Rows(txs)}
  IN IF CleanFullRun(r)
     THEN [other EXCEPT !.clean = TRUE, !.transactionsCount = r.totalTransactions,
                        !.accountsCount = r.accountsCount, !.listed = Len(r.accts),
                        !.window = InWindow(r), !.twice = ReturnedTwice(r),
                        !.stored = BagCardinality(txs)]
     ELSE IF r.kind = "full" /\ FetchFailed(r) /\ r.totalTransactions > 0
     THEN [other EXCEPT !.fetchFailed = TRUE,
                        !.lost = {x.id : x \in Delivered(r)} \ ids]
     ELSE IF r.kind = "inc" /\ SavedAll(r)
     THEN [other EXCEPT !.ok = TRUE, !.ids = ids]
     ELSE other

\* Return, with the result added to the results kept
ReturnRecorded(t) ==
  /\ Ready
  /\ task[t].pc \in {"done", "raised"}
  /\ Set(t, IdleTask)
  /\ runs' = IF Len(runs) < MaxRuns THEN Append(runs, SyncResult(task[t])) ELSE runs
  /\ UNCHANGED <<users, tokens, accounts, txs, http, split, loop, gw, vault, mig>>

(***************************************************************************)
(* syncTransactions                                                        *)
(***************************************************************************)
\* find the user and the token, decrypt it
FullFindUser(t) ==
  LET r == task[t] IN
  /\ Ready
  /\ r.pc = "fullFind"
  /\ Set(t, IF ~HasToken(r.user) THEN Raise(r, "NotFound")
            ELSE IF DecryptFails(RawToken(r.user)) THEN Raise(r, "Crypto")
            ELSE [r EXCEPT !.pc = "fullClientInfo", !.token = ReadToken(RawToken(r.user))])
  /\ UNCHANGED <<users, tokens, accounts, txs, http, split, loop, runs, gw, vault, mig>>

\* the for loop over clientInfo.accounts from index i on: an account with
\* no row is skipped (continue); past the last account the sync returns
RECURSIVE FullEnterAccount(_, _, _)
FullEnterAccount(r, table, i) ==
  IF i > Len(r.accts) THEN [r EXCEPT !.pc = "done", !.ai = i]
  ELSE IF AccountRow(r.user, r.accts[i]) \notin table THEN FullEnterAccount(r, table, i + 1)
  ELSE IF Len(r.ranges) = 0 THEN [r EXCEPT !.pc = "fullWaitAccount", !.ai = i]
  ELSE [r EXCEPT !.pc = "fullFetch", !.ai = i, !.ci = 1]

\* the date ranges of the sync, computed once the accounts are saved
FullPlan(r, now, table) ==
  FullEnterAccount(
    [r EXCEPT !.to = now, !.from = now - FullSyncDays * DaySeconds,
              !.ranges = splitIntoChunks(now - FullSyncDays * DaySeconds, now, ChunkDays)],
    table, 1)

\* getClientInfo(token)
FullClientInfo(t) ==
  LET r == task[t] IN
  /\ Ready
  /\ r.pc = "fullClientInfo"
  /\ \E ok \in BOOLEAN, now \in Nows :
       Set(t, IF ok /\ r.token \in ValidTokens
              THEN LET got == [Called(r) EXCEPT !.accts = UpstreamAccounts(r.token)]
                   IN IF Len(got.accts) = 0 THEN FullPlan(got, now, accounts)
                      ELSE [got EXCEPT !.pc = "fullSaveAccount", !.ai = 1]
              ELSE Raise(Called(r), "Upstream"))
  /\ UNCHANGED <<users, tokens, accounts, txs, http, split, loop, runs, gw, vault, mig>>

\* mutant of FullSaveAccount: the saved account is not counted
FullSaveAccountUncounted(t) ==
  LET r == task[t] IN
  /\ Ready
  /\ r.pc = "fullSaveAccount"
  /\ \E ok \in BOOLEAN, now \in Nows :
       IF ok
       THEN LET table == AccountUpsert(accounts, r.user, r.accts[r.ai])
            IN /\ accounts' = table
               /\ Set(t, IF r.ai < Len(r.accts) THEN [r EXCEPT !.ai = @ + 1]
                         ELSE FullPlan(r, now, table))
       ELSE /\ accounts' = accounts
            /\ Set(t, Raise(r, "Db"))
  /\ UNCHANGED <<users, tokens, txs, http, split, loop, runs, gw, vault, mig>>

\* one iteration of the loop that saves the accounts; after the last one
\* the date ranges are computed and the first account's row is looked up
FullSaveAccount(t) ==
  LET r == task[t] IN
  /\ Ready
  /\ r.pc = "fullSaveAccount"
  /\ \E ok \in BOOLEAN, now \in Nows :
       IF ok
       THEN LET table == AccountUpsert(accounts, r.user, r.accts[r.ai])
                saved == [r EXCEPT !.accountsCount = @ + 1]
            IN /\ accounts' = table
               /\ Set(t, IF r.ai < Len(r.accts) THEN [saved EXCEPT !.ai = @ + 1]
                         ELSE FullPlan(saved, now, table))
       ELSE /\ accounts' = accounts
            /\ Set(t, Raise(r, "Db"))
  /\ UNCHANGED <<users, tokens, txs, http, split, loop, runs, gw, vault, mig>>

\* mutant of FullAfterChunk: a failed fetch ends the account's chunk loop
FullAfterChunkBreak(r, fetchOk) ==
  IF r.ci < Len(r.ranges) /\ fetchOk THEN [r EXCEPT !.pc = "fullWaitChunk"]
  ELSE [r EXCEPT !.pc = "fullWaitAccount"]

\* what follows chunk i: the wait when its fetch returned and it is not the
\* last chunk; the next chunk at once when its fetch failed; the wait before
\* the next account after the last chunk
FullAfterChunk(r, fetchOk) ==
  IF r.ci < Len(r.ranges)
  THEN IF fetchOk THEN [r EXCEPT !.pc = "fullWaitChunk"]
       ELSE [r EXCEPT !.pc = "fullFetch", !.ci = @ + 1]
  ELSE [r EXCEPT !.pc = "fullWaitAccount"]

\* getStatement(token, account, from, to) for chunk i
FullFetch(t) ==
  LET r == task[t]
      range == r.ranges[r.ci]
      req == [account |-> r.accts[r.ai], from |-> range.from, to |-> range.to]
      sent == [Called(r) EXCEPT !.reqs = Append(@, req)]
  IN
  /\ Ready
  /\ r.pc = "fullFetch"
  /\ \E ok \in BOOLEAN :
       Set(t, IF ok
              THEN LET transactions == Statement(req.account, req.from, req.to)
                       got == [sent EXCEPT !.pending = transactions,
                                           !.fetched = @ + Len(transactions)]
                   IN IF Len(transactions) = 0 THEN FullAfterChunk(got, TRUE)
                      ELSE [got EXCEPT !.pc = "fullUpsert"]
              ELSE FullAfterChunk(sent, FALSE))
  /\ UNCHANGED <<users, tokens, accounts, txs, http, split, loop, runs, gw, vault, mig>>

\* one iteration of the loop that saves the fetched transactions
FullUpsert(t) ==
  LET r == task[t]
      tx == Head(r.pending)
      tried == [r EXCEPT !.pending = Tail(@), !.attempts = @ + 1]
      next(q) == IF Len(q.pending) = 0 THEN FullAfterChunk(q, TRUE) ELSE q
  IN
  /\ Ready
  /\ r.pc = "fullUpsert"
  /\ \E ok \in BOOLEAN, hold \in BOOLEAN :
       IF ok
       THEN /\ txs' = TransactionUpsert(txs, tx, hold, AccountRow(r.user, r.accts[r.ai]))
            /\ Set(t, next([tried EXCEPT !.totalTransactions = @ + 1]))
       ELSE /\ txs' = txs
            /\ Set(t, next(tried))
  /\ UNCHANGED <<users, tokens, accounts, http, split, loop, runs, gw, vault, mig>>

\* mutant of FullWaitChunk: the chunk just fetched is fetched again
FullWaitChunkRepeat(t) ==
  LET r == task[t] IN
  /\ Ready
  /\ r.pc = "fullWaitChunk"
  /\ Set(t, [r EXCEPT !.waited = TRUE, !.pc = "fullFetch"])
  /\ UNCHANGED <<users, tokens, accounts, txs, http, split, loop, runs, gw, vault, mig>>

\* wait(60000) before the next chunk
FullWaitChunk(t) ==
  LET r == task[t] IN
  /\ Ready
  /\ r.pc = "fullWaitChunk"
  /\ Set(t, [r EXCEPT !.waited = TRUE, !.ci = @ + 1, !.pc = "fullFetch"])
  /\ UNCHANGED <<users, tokens, accounts, txs, http, split, loop, runs, gw, vault, mig>>

\* wait(60000) before the next account; after the last account the sync
\* returns its result
FullWaitAccount(t) ==
  LET r == task[t] IN
  /\ Ready
  /\ r.pc = "fullWaitAccount"
  /\ Set(t, FullEnterAccount([r EXCEPT !.waited = TRUE], accounts, r.ai + 1))
  /\ UNCHANGED <<users, tokens, accounts, txs, http, split, loop, runs, gw, vault, mig>>

FullSync(t) ==
  \/ FullFindUser(t)
  \/ FullClientInfo(t)
  \/ FullSaveAccount(t)
  \/ FullFetch(t)
  \/ FullUpsert(t)
  \/ FullWaitChunk(t)
  \/ FullWaitAccount(t)

(***************************************************************************)
(* syncIncrementalTransactions                                             *)
(***************************************************************************)
\* mutant of IncFindUser: the token is not looked for
IncFindUserUnchecked(t) ==
  LET r == task[t] IN
  /\ Ready
  /\ r.pc = "incFind"
  /\ Set(t, [r EXCEPT !.pc = "incCursor"])
  /\ UNCHANGED <<users, tokens, accounts, txs, http, split, loop, runs, gw, vault, mig>>

\* find the user and the token
IncFindUser(t) ==
  LET r == task[t] IN
  /\ Ready
  /\ r.pc = "incFind"
  /\ Set(t, IF ~HasToken(r.user) THEN Raise(r, "NotFound")
            ELSE [r EXCEPT !.pc = "incCursor"])
  /\ UNCHANGED <<users, tokens, accounts, txs, http, split, loop, runs, gw, vault, mig>>

\* mutant of IncCursor: with no transaction stored the sync goes on as an
\* incremental one, from time 0
IncCursorNoDelegate(t) ==
  LET r == task[t] IN
  /\ Ready
  /\ r.pc = "incCursor"
  /\ Set(t, IF DecryptFails(RawToken(r.user)) THEN Raise(r, "Crypto")
            ELSE [r EXCEPT !.pc = "incClientInfo",
                           !.cursor = IF UserTxs(r.user) = {} THEN 0 ELSE LastTxTime(r.user),
                           !.token = ReadToken(RawToken(r.user))])
  /\ UNCHANGED <<users, tokens, accounts, txs, http, split, loop, runs, gw, vault, mig>>

\* the last transaction of the user: with none the call is handed to
\* syncTransactions, else the token is decrypted
IncCursor(t) ==
  LET r == task[t] IN
  /\ Ready
  /\ r.pc = "incCursor"
  /\ Set(t, IF UserTxs(r.user) = {} THEN [r EXCEPT !.pc = "fullFind", !.kind = "full"]
            ELSE IF DecryptFails(RawToken(r.user)) THEN Raise(r, "Crypto")
            ELSE [r EXCEPT !.pc = "incClientInfo", !.cursor = LastTxTime(r.user),
                           !.token = ReadToken(RawToken(r.user))])
  /\ UNCHANGED <<users, tokens, accounts, txs, http, split, loop, runs, gw, vault, mig>>

\* mutant of ExceedsFallback: the days are rounded down before the test
ExceedsFallbackWholeDays(fromTimestamp, toTimestamp) ==
  (toTimestamp - fromTimestamp) \div DaySeconds > FallbackDays

\* daysDiff > 31, daysDiff the quotient (a float) of the seconds by 86400
ExceedsFallback(fromTimestamp, toTimestamp) ==
  toTimestamp - fromTimestamp > FallbackDays * DaySeconds

\* the window of the sync: from the last transaction to now, or the last 31
\* days when that is longer than 31 days
IncWindow(r, now) ==
  IF ExceedsFallback(r.cursor, now)
  THEN [r EXCEPT !.to = now, !.from = now - FallbackDays * DaySeconds, !.fallback = TRUE]
  ELSE [r EXCEPT !.to = now, !.from = r.cursor]

\* getClientInfo(token), then the window
IncClientInfo(t) ==
  LET r == task[t] IN
  /\ Ready
  /\ r.pc = "incClientInfo"
  /\ \E ok \in BOOLEAN, now \in Nows :
       Set(t, IF ok /\ r.token \in ValidTokens
              THEN LET got == [IncWindow(Called(r), now) EXCEPT !.accts = UpstreamAccounts(r.token)]
                   IN IF Len(got.accts) = 0 THEN [got EXCEPT !.pc = "done"]
                      ELSE [got EXCEPT !.pc = "incSaveAccount", !.ai = 1]
              ELSE Raise(Called(r), "Upstream"))
  /\ UNCHANGED <<users, tokens, accounts, txs, http, split, loop, runs, gw, vault, mig>>

\* the for loop over clientInfo.accounts goes on to the account after i
IncNextAccount(r) ==
  IF r.ai < Len(r.accts) THEN [r EXCEPT !.pc = "incSaveAccount", !.ai = @ + 1]
  ELSE [r EXCEPT !.pc = "done"]

\* the account of this iteration is saved and looked up
IncSaveAccount(t) ==
  LET r == task[t] IN
  /\ Ready
  /\ r.pc = "incSaveAccount"
  /\ \E ok \in BOOLEAN :
       IF ok
       THEN LET table == AccountUpsert(accounts, r.user, r.accts[r.ai])
                saved == [r EXCEPT !.accountsCount = @ + 1]
            IN /\ accounts' = table
               /\ Set(t, IF AccountRow(r.user, r.accts[r.ai]) \in table
                         THEN [saved EXCEPT !.pc = "incFetch"]
                         ELSE IncNextAccount(saved))
       ELSE /\ accounts' = accounts
            /\ Set(t, Raise(r, "Db"))
  /\ UNCHANGED <<users, tokens, txs, http, split, loop, runs, gw, vault, mig>>

\* what follows the saving of the account's transactions: the wait unless
\* the account is the last one
IncAfterSave(r) ==
  IF r.ai < Len(r.accts) THEN [r EXCEPT !.pc = "incWait"] ELSE IncNextAccount(r)

\* getStatement(token, account, fromTimestamp, toTimestamp)
IncFetch(t) ==
  LET r == task[t]
      req == [account |-> r.accts[r.ai], from |-> r.from, to |-> r.to]
      sent == [Called(r) EXCEPT !.reqs = Append(@, req)]
  IN
  /\ Ready
  /\ r.pc = "incFetch"
  /\ \E ok \in BOOLEAN :
       Set(t, IF ok
              THEN LET transactions == Statement(req.account, req.from, req.to)
                       got == [sent EXCEPT !.pending = transactions,
                                           !.fetched = @ + Len(transactions)]
                   IN IF Len(transactions) = 0 THEN IncAfterSave(got)
                      ELSE [got EXCEPT !.pc = "incUpsert"]
              ELSE IncNextAccount(sent))
  /\ UNCHANGED <<users, tokens, accounts, txs, http, split, loop, runs, gw, vault, mig>>

\* one iteration of the loop that saves the fetched transactions
IncUpsert(t) ==
  LET r == task[t]
      tx == Head(r.pending)
      tried == [r EXCEPT !.pending = Tail(@), !.attempts = @ + 1]
      next(q) == IF Len(q.pending) = 0 THEN IncAfterSave(q) ELSE q
  IN
  /\ Ready
  /\ r.pc = "incUpsert"
  /\ \E ok \in BOOLEAN, hold \in BOOLEAN :
       IF ok
       THEN /\ txs' = TransactionUpsert(txs, tx, hold, AccountRow(r.user, r.accts[r.ai]))
            /\ Set(t, next([tried EXCEPT !.totalTransactions = @ + 1]))
       ELSE /\ txs' = txs
            /\ Set(t, next(tried))
  /\ UNCHANGED <<users, tokens, accounts, http, split, loop, runs, gw, vault, mig>>

\* wait(60000) before the next account
IncWait(t) ==
  LET r == task[t] IN
  /\ Ready
  /\ r.pc = "incWait"
  /\ Set(t, IncNextAccount([r EXCEPT !.waited = TRUE]))
  /\ UNCHANGED <<users, tokens, accounts, txs, http, split, loop, runs, gw, vault, mig>>

IncSync(t) ==
  \/ IncFindUser(t)
  \/ IncCursor(t)
  \/ IncClientInfo(t)
  \/ IncSaveAccount(t)
  \/ IncFetch(t)
  \/ IncUpsert(t)
  \/ IncWait(t)

(***************************************************************************)
(* setupWebhook                                                            *)
(***************************************************************************)
SetupFindUser(t) ==
  LET r == task[t] IN
  /\ Ready
  /\ r.pc = "setupFind"
  /\ Set(t, IF ~HasToken(r.user) THEN Raise(r, "NotFound")
            ELSE IF DecryptFails(RawToken(r.user)) THEN Raise(r, "Crypto")
            ELSE [r EXCEPT !.pc = "setWebhook", !.token = ReadToken(RawToken(r.user))])
  /\ UNCHANGED <<users, tokens, accounts, txs, http, split, loop, runs, gw, vault, mig>>

\* setWebhook(token, webhookUrl)
SetupSetWebhook(t) ==
  LET r == task[t] IN
  /\ Ready
  /\ r.pc = "setWebhook"
  /\ \E ok \in BOOLEAN :
       Set(t, IF ok /\ r.token \in ValidTokens THEN [Called(r) EXCEPT !.pc = "done"]
              ELSE Raise(Called(r), "Upstream"))
  /\ UNCHANGED <<users, tokens, accounts, txs, http, split, loop, runs, gw, vault, mig>>

SetupWebhook(t) ==
  \/ SetupFindUser(t)
  \/ SetupSetWebhook(t)

(***************************************************************************)
(* saveToken                                                               *)
(***************************************************************************)
\* mutant of saveToken: the token is stored before it is verified
saveTokenStoreFirst(clerkId, token, iv) ==
  LET req == [clerkId |-> clerkId, token |-> token] IN
  /\ Ready
  /\ users' = users \cup {clerkId}
  /\ tokens' = TokenUpsert(tokens, clerkId, encrypt(token, iv))
  /\ \E ok \in BOOLEAN :
       IF ok /\ token \in ValidTokens
       THEN http' = Response("saveToken", 201, "saved", req)
       ELSE http' = Response("saveToken", IF token \in ValidTokens THEN 503 ELSE 401, "failed", req)
  /\ UNCHANGED <<accounts, txs, task, split, loop, runs, gw, vault, mig>>

\* the token is verified by getClientInfo; only then the user row is found
\* or created and the encrypted token stored
saveToken(clerkId, token, iv) ==
  LET req == [clerkId |-> clerkId, token |-> token] IN
  /\ Ready
  /\ \E ok \in BOOLEAN :
       IF ok /\ token \in ValidTokens
       THEN /\ users' = users \cup {clerkId}
            /\ tokens' = TokenUpsert(tokens, clerkId, encrypt(token, iv))
            /\ http' = Response("saveToken", 201, "saved", req)
       ELSE /\ users' = users
            /\ tokens' = tokens
            /\ http' = Response("saveToken", IF token \in ValidTokens THEN 503 ELSE 401, "failed", req)
  /\ UNCHANGED <<accounts, txs, task, split, loop, runs, gw, vault, mig>>

(***************************************************************************)
(* handleWebhook                                                           *)
(***************************************************************************)
\* prisma.account.findFirst, where: { accountId }
AccountsWithId(accountId) == {a \in accounts : a.accountId = accountId}

\* mutant of handleWebhook: a failed upsert is logged and not thrown on
handleWebhookSwallow(payload) ==
  /\ Ready
  /\ IF payload.type # "StatementItem"
     THEN /\ txs' = txs
          /\ http' = Response("webhook", 200, "unknownType", payload)
     ELSE IF AccountsWithId(payload.account) = {}
     THEN /\ txs' = txs
          /\ http' = Response("webhook", 200, "noAccount", payload)
     ELSE \E account \in AccountsWithId(payload.account), ok \in BOOLEAN :
            IF ok
            THEN /\ txs' = TransactionUpsert(txs, payload.item, payload.item.hold, account)
                 /\ http' = Response("webhook", 200, "saved", payload)
            ELSE /\ txs' = txs
                 /\ http' = Response("webhook", 200, "failed", payload)
  /\ UNCHANGED <<users, tokens, accounts, task, split, loop, runs, gw, vault, mig>>

\* mutant of handleWebhook: the type of the event is not looked at
handleWebhookAnyType(payload) ==
  /\ Ready
  /\ IF AccountsWithId(payload.account) = {}
     THEN /\ txs' = txs
          /\ http' = Response("webhook", 200, "noAccount", payload)
     ELSE \E account \in AccountsWithId(payload.account), ok \in BOOLEAN :
            IF ok
            THEN /\ txs' = TransactionUpsert(txs, payload.item, payload.item.hold, account)
                 /\ http' = Response("webhook", 200, "saved", payload)
            ELSE /\ txs' = txs
                 /\ http' = Response("webhook", 500, "failed", payload)
  /\ UNCHANGED <<users, tokens, accounts, task, split, loop, runs, gw, vault, mig>>

\* mutant of handleWebhook: the item is inserted, not upserted
handleWebhookInsert(payload) ==
  /\ Ready
  /\ IF payload.type # "StatementItem"
     THEN /\ txs' = txs
          /\ http' = Response("webhook", 200, "unknownType", payload)
     ELSE IF AccountsWithId(payload.account) = {}
     THEN /\ txs' = txs
          /\ http' = Response("webhook", 200, "noAccount", payload)
     ELSE \E account \in AccountsWithId(payload.account), ok \in BOOLEAN :
            IF ok
            THEN /\ txs' = TransactionCreate(txs, payload.item, payload.item.hold, account)
                 /\ http' = Response("webhook", 200, "saved", payload)
            ELSE /\ txs' = txs
                 /\ http' = Response("webhook", 500, "failed", payload)
  /\ UNCHANGED <<users, tokens, accounts, task, split, loop, runs, gw, vault, mig>>

\* MonobankController.handleWebhook and MonobankService.handleWebhook: the
\* response is 200 when the service returns and 500 when it throws; `log`
\* is the line the service logs last
handleWebhook(payload) ==
  /\ Ready
  /\ IF payload.type # "StatementItem"
     THEN /\ txs' = txs
          /\ http' = Response("webhook", 200, "unknownType", payload)
     ELSE IF AccountsWithId(payload.account) = {}
     THEN /\ txs' = txs
          /\ http' = Response("webhook", 200, "noAccount", payload)
     ELSE \E account \in AccountsWithId(payload.account), ok \in BOOLEAN :
            IF ok
            THEN /\ txs' = TransactionUpsert(txs, payload.item, payload.item.hold, account)
                 /\ http' = Response("webhook", 200, "saved", payload)
            ELSE /\ txs' = txs
                 /\ http' = Response("webhook", 500, "failed", payload)
  /\ UNCHANGED <<users, tokens, accounts, task, split, loop, runs, gw, vault, mig>>

\* the response of the request is sent
SendResponse ==
  /\ ~Ready
  /\ http' = NoResponse
  /\ UNCHANGED <<users, tokens, accounts, txs, task, split, loop, runs, gw, vault, mig>>

\* the payloads a sender may push: an event of another type, an item of an
\* account nobody has, and each item the upstream holds for its account
Payloads(ids) ==
  LET item(x, h) == [id |-> x.id, time |-> x.time, hold |-> h]
      any == CHOOSE x \in UpstreamTxs : x.id \in ids
  IN { [type |-> "Ping", account |-> any.account, item |-> item(any, FALSE)],
       [type |-> "StatementItem", account |-> "zzz", item |-> item(any, FALSE)] }
     \cup { [type |-> "StatementItem", account |-> x.account, item |-> item(x, h)] :
              x \in {y \in UpstreamTxs : y.id \in ids}, h \in BOOLEAN }

(***************************************************************************)
(* The token-encryption migration script (encrypt-existing-tokens): one    *)
(* run reads all MonobankToken rows, then goes through them one by one.    *)
(***************************************************************************)
\* the string a stored value is: a legacy row is its plaintext
TokenText(value) ==
  IF Len(value) = 1 /\ value[1].kind = "raw" THEN value[1].text ELSE "stored"

\* the script's encrypt(plaintext, key), iv the value of randomBytes
scriptEncrypt(plaintext, iv) ==
  <<Field("iv", iv, ""), Field("tag", iv, plaintext), Ciphertext(plaintext, iv)>>

\* mutant of isAlreadyEncrypted: no value is taken for an encrypted one
isAlreadyEncryptedNever(value) == FALSE

\* parts.length === PARTS_COUNT && parts.every((p) => /^[0-9a-f]+$/i.test(p))
isAlreadyEncrypted(value) ==
  Len(value) = PARTS_COUNT /\ \A i \in 1..Len(value) : IsHex(value[i])

\* prisma.monobankToken.findMany(): the rows, in some order
RECURSIVE FindMany(_)
FindMany(table) ==
  IF table = {} THEN <<>>
  ELSE LET record == CHOOSE r \in table : TRUE
       IN <<record>> \o FindMany(table \ {record})

\* prisma.monobankToken.update, where: { id }, data: { token }
TokenUpdate(table, id, stored) ==
  {IF r.userId = id THEN [r EXCEPT !.token = stored] ELSE r : r \in table}

\* main(): the rows are read
MigrateStart ==
  /\ Ready
  /\ mig.pc = "idle"
  /\ mig.run < MaxMigrations
  /\ mig' = [ pc |-> "loop", todo |-> FindMany(tokens), found |-> Cardinality(tokens),
              encrypted |-> 0, skipped |-> 0, changed |-> FALSE, run |-> mig.run + 1,
              migrated |-> mig.migrated ]
  /\ UNCHANGED <<users, tokens, accounts, txs, task, http, split, loop, runs, gw, vault>>

\* one iteration of the loop over the rows read
MigrateRow(iv) ==
  LET record == Head(mig.todo) IN
  /\ Ready
  /\ mig.pc = "loop"
  /\ Len(mig.todo) > 0
  /\ IF isAlreadyEncrypted(record.token)
     THEN /\ tokens' = tokens
          /\ mig' = [mig EXCEPT !.todo = Tail(@), !.skipped = @ + 1]
     ELSE LET table == TokenUpdate(tokens, record.userId,
                                   scriptEncrypt(TokenText(record.token), iv))
          IN /\ tokens' = table
             /\ mig' = [mig EXCEPT !.todo = Tail(@), !.encrypted = @ + 1,
                                   !.changed = @ \/ table # tokens,
                                   !.migrated = @ + 1]
  /\ UNCHANGED <<users, accounts, txs, task, http, split, loop, runs, gw, vault>>

\* the loop is over: the counts are logged and the script ends
MigrateEnd ==
  /\ Ready
  /\ mig.pc = "loop"
  /\ Len(mig.todo) = 0
  /\ mig' = [mig EXCEPT !.pc = "idle"]
  /\ UNCHANGED <<users, tokens, accounts, txs, task, http, split, loop, runs, gw, vault>>

\* the token each user saved
SavedBy(u) == IF u = "u1" THEN "tokC" ELSE "tokB"

\* the forms in which a saved token is stored: as it is (saved before
\* tokens were encrypted) or encrypted by saveToken
SavedForms(token) == {Plain(token)} \cup {encrypt(token, iv) : iv \in Ivs}

\* a deployment whose users saved their tokens before or after tokens were
\* encrypted
InitLegacy ==
  /\ users = AllUsers
  /\ tokens \in {{[userId |-> u, token |-> form[u]] : u \in AllUsers} :
                   form \in {f \in [AllUsers -> UNION {SavedForms(SavedBy(u)) : u \in AllUsers}] :
                               \A u \in AllUsers : f[u] \in SavedForms(SavedBy(u))}}
  /\ accounts = {}
  /\ txs = EmptyBag
  /\ task = [t \in AllTasks |-> IdleTask]
  /\ http = NoResponse
  /\ split = NoSplit
  /\ loop = NoLoop
  /\ runs = <<>>
  /\ gw = NoCall
  /\ vault = NoVault
  /\ mig = NoMigration

(***************************************************************************)
(* An application of splitIntoChunks.                                      *)
(***************************************************************************)
SplitTimes == {d * DaySeconds + s : d \in 0..MaxSplitDays, s \in {0, 1}}

InitSplit ==
  /\ users = {}
  /\ tokens = {}
  /\ accounts = {}
  /\ txs = EmptyBag
  /\ task = [t \in AllTasks |-> IdleTask]
  /\ http = NoResponse
  /\ \E f \in SplitTimes, u \in SplitTimes, d \in 1..MaxSplitChunkDays :
       split = [NoSplit EXCEPT !.fromTimestamp = f, !.toTimestamp = u, !.chunkDays = d]
  /\ loop = NoLoop
  /\ runs = <<>>
  /\ gw = NoCall
  /\ vault = NoVault
  /\ mig = NoMigration

ApplySplit ==
  /\ ~split.done
  /\ split' = [split EXCEPT !.done = TRUE,
                 !.chunks = splitIntoChunks(split.fromTimestamp, split.toTimestamp, split.chunkDays)]
  /\ UNCHANGED <<users, tokens, accounts, txs, task, http, loop, runs, gw, vault, mig>>

(***************************************************************************)
(* MonobankApiService: a call (getClientInfo, getStatement, setWebhook)    *)
(* and what becomes of a failure of its HTTP request.                      *)
(***************************************************************************)
GatewayOps == {"getClientInfo", "getStatement", "setWebhook"}

\* the statuses with which a response makes axios reject
ErrorStatuses == 300..599

\* what the HTTP request of a call may end in: a 2xx response, a response
\* with another status, an axios error with no response (status undefined),
\* or an error that is not an axios error
Answers ==
  {[ok |-> TRUE, axios |-> TRUE, status |-> 200]}
    \cup {[ok |-> FALSE, axios |-> TRUE, status |-> st] : st \in ErrorStatuses \cup {0}}
    \cup {[ok |-> FALSE, axios |-> FALSE, status |-> 0]}

\* the status of the HttpException thrown for the failure
handleMonobankError(error) ==
  IF error.axios
  THEN CASE error.status = 400 -> 400
         [] error.status = 401 -> 401
         [] error.status = 403 -> 403
         [] error.status = 429 -> 429
         [] error.status \in {500, 502, 503} -> 503
         [] OTHER -> 500
  ELSE 500

InitGateway ==
  /\ users = {}
  /\ tokens = {}
  /\ accounts = {}
  /\ txs = EmptyBag
  /\ task = [t \in AllTasks |-> IdleTask]
  /\ http = NoResponse
  /\ split = NoSplit
  /\ loop = NoLoop
  /\ runs = <<>>
  /\ vault = NoVault
  /\ mig = NoMigration
  /\ gw = NoCall

\* try { return (await axios...).data } catch (error) { handleMonobankError }
GatewayCall(op, answer) ==
  /\ gw' = IF answer.ok
           THEN [op |-> op, answer |-> answer, outcome |-> "returned", thrown |-> 0]
           ELSE [op |-> op, answer |-> answer, outcome |-> "thrown",
                 thrown |-> handleMonobankError(answer)]
  /\ UNCHANGED <<users, tokens, accounts, txs, task, http, split, loop, runs, vault, mig>>

(***************************************************************************)
(* Applications of CryptoService: encrypt on a plaintext, decrypt and      *)
(* isEncrypted on a stored value.                                          *)
(***************************************************************************)
Plaintexts == {"", "tokA", "tokB"}

\* the values encrypt returns
Genuine == {encrypt(p, iv) : p \in Plaintexts, iv \in Ivs}

\* a value of encrypt changed in one place: some characters appended to a
\* field, a field replaced by a text that is not hex or by the field of
\* another encryption, a field dropped, a field added
Altered(s) ==
  {[s EXCEPT ![k] = WithTail(s[k], tail)] : k \in 1..PARTS_COUNT, tail \in {"zz", "f"}}
    \cup {[s EXCEPT ![k] = Field("raw", 0, "junk")] : k \in 1..PARTS_COUNT}
    \cup {[s EXCEPT ![k] = o[k]] : k \in 1..PARTS_COUNT, o \in Genuine}
    \cup {SubSeq(s, 1, PARTS_COUNT - 1), Append(s, s[PARTS_COUNT])}

\* the values decrypt and isEncrypted are applied to
StoredForms ==
  Genuine \cup UNION {Altered(s) : s \in Genuine}
          \cup {Plain(p) : p \in Plaintexts \ {""}}

InitVault ==
  /\ users = {}
  /\ tokens = {}
  /\ accounts = {}
  /\ txs = EmptyBag
  /\ task = [t \in AllTasks |-> IdleTask]
  /\ http = NoResponse
  /\ split = NoSplit
  /\ loop = NoLoop
  /\ runs = <<>>
  /\ gw = NoCall
  /\ vault = NoVault
  /\ mig = NoMigration

\* encrypt(plaintext), iv the value randomBytes returns; the call before is
\* kept when it was an encrypt too
VaultEncrypt(plaintext, iv) ==
  /\ vault' = [ op |-> "encrypt", input |-> plaintext, iv |-> iv,
                result |-> encrypt(plaintext, iv),
                prev |-> IF vault.op = "encrypt"
                         THEN <<[input |-> vault.input, iv |-> vault.iv, result |-> vault.result]>>
                         ELSE <<>> ]
  /\ UNCHANGED <<users, tokens, accounts, txs, task, http, split, loop, runs, gw, mig>>

\* decrypt(stored)
VaultDecrypt(stored) ==
  /\ vault' = [NoVault EXCEPT !.op = "decrypt", !.input = stored, !.result = decrypt(stored)]
  /\ UNCHANGED <<users, tokens, accounts, txs, task, http, split, loop, runs, gw, mig>>

\* isEncrypted(value)
VaultIsEncrypted(value) ==
  /\ vault' = [NoVault EXCEPT !.op = "isEncrypted", !.input = value, !.result = isEncrypted(value)]
  /\ UNCHANGED <<users, tokens, accounts, txs, task, http, split, loop, runs, gw, mig>>

(***************************************************************************)
(* The while loop of splitIntoChunks, one iteration a step.  The list of   *)
(* chunks is recorded up to MaxLoopChunks entries; the loop goes on past   *)
(* that.                                                                   *)
(***************************************************************************)
LoopChunkDays == 0..MaxSplitChunkDays

InitLoop ==
  /\ users = {}
  /\ tokens = {}
  /\ accounts = {}
  /\ txs = EmptyBag
  /\ task = [t \in AllTasks |-> IdleTask]
  /\ http = NoResponse
  /\ split = NoSplit
  /\ runs = <<>>
  /\ gw = NoCall
  /\ vault = NoVault
  /\ mig = NoMigration
  /\ \E f \in SplitTimes, u \in SplitTimes, d \in LoopChunkDays :
       loop = [ fromTimestamp |-> f, toTimestamp |-> u, chunkDays |-> d,
                currentFrom |-> f, chunks |-> <<>>, done |-> FALSE ]

\* while (currentFrom < toTimestamp) { ... }: one iteration
LoopIterate ==
  LET chunkSeconds == loop.chunkDays * DaySeconds
      currentTo == Min(loop.currentFrom + chunkSeconds, loop.toTimestamp)
  IN
  /\ ~loop.done
  /\ loop.currentFrom < loop.toTimestamp
  /\ loop' = [loop EXCEPT
                !.chunks = IF Len(@) < MaxLoopChunks
                           THEN Append(@, [from |-> loop.currentFrom, to |-> currentTo])
                           ELSE @,
                !.currentFrom = currentTo]
  /\ UNCHANGED <<users, tokens, accounts, txs, task, http, split, runs, gw, vault, mig>>

\* the loop condition is false: return chunks
LoopReturn ==
  /\ ~loop.done
  /\ ~(loop.currentFrom < loop.toTimestamp)
  /\ loop' = [loop EXCEPT !.done = TRUE]
  /\ UNCHANGED <<users, tokens, accounts, txs, task, http, split, runs, gw, vault, mig>>

(***************************************************************************)
(* Specifications.                                                         *)
(***************************************************************************)
\* one user, one request at a time, webhooks and saveToken in between
Next ==
  \/ \E t \in Tasks, u \in Users : CtlSyncTransactions(t, u)
  \/ \E t \in Tasks, u \in Users : CtlSyncIncrementalTransactions(t, u)
  \/ \E t \in Tasks, u \in Users : CtlSetupWebhook(t, u)
  \/ \E t \in Tasks : FullSync(t)
  \/ \E t \in Tasks : IncSync(t)
  \/ \E t \in Tasks : SetupWebhook(t)
  \/ \E t \in Tasks : Return(t)
  \/ \E u \in Users, token \in {"tokA", "bad"}, iv \in Ivs : saveToken(u, token, iv)
  \/ \E p \in Payloads({"t1", "t2", "t3"}) : handleWebhook(p)
  \/ SendResponse

Spec == Init /\ [][Next]_vars

\* two requests of one user at a time
NextConc ==
  \/ \E t \in ConcTasks, u \in ConcUsers : CtlSyncTransactions(t, u)
  \/ \E t \in ConcTasks, u \in ConcUsers : CtlSyncIncrementalTransactions(t, u)
  \/ \E t \in ConcTasks : FullSync(t)
  \/ \E t \in ConcTasks : IncSync(t)
  \/ \E t \in ConcTasks : Return(t)
  \/ \E u \in ConcUsers, iv \in {0} : saveToken(u, "tokB", iv)
  \/ SendResponse

SpecConc == Init /\ [][NextConc]_vars

\* splitIntoChunks applied to every input of the bounds
NextSplit == ApplySplit

SpecSplit == InitSplit /\ [][NextSplit]_vars

\* full syncs of one user, one after the other, their results kept
NextReplay ==
  \/ \E t \in Tasks, u \in Users : CtlSyncTransactions(t, u)
  \/ \E t \in Tasks : FullSync(t)
  \/ \E t \in Tasks : ReturnRecorded(t)
  \/ \E u \in Users, iv \in {0} : saveToken(u, "tokC", iv)
  \/ SendResponse

SpecReplay == Init /\ [][NextReplay]_vars

\* full and incremental syncs of one user, one after the other, their
\* results kept; the user's first account has an item dated at the current
\* time and one that is 59 days old
NextTimes ==
  \/ \E t \in Tasks, u \in Users : CtlSyncTransactions(t, u)
  \/ \E t \in Tasks, u \in Users : CtlSyncIncrementalTransactions(t, u)
  \/ \E t \in Tasks : FullSync(t)
  \/ \E t \in Tasks : IncSync(t)
  \/ \E t \in Tasks : ReturnRecorded(t)
  \/ \E u \in Users, iv \in {0} : saveToken(u, "tokD", iv)
  \/ SendResponse

SpecTimes == Init /\ [][NextTimes]_vars

\* two users who saved the same token, so that both have its accounts:
\* their syncs one at a time, and webhooks for the account's items
NextShared ==
  \/ \E t \in Tasks, u \in AllUsers : CtlSyncTransactions(t, u)
  \/ \E t \in Tasks, u \in AllUsers : CtlSyncIncrementalTransactions(t, u)
  \/ \E t \in Tasks : FullSync(t)
  \/ \E t \in Tasks : IncSync(t)
  \/ \E t \in Tasks : Return(t)
  \/ \E u \in AllUsers, iv \in {0} : saveToken(u, "tokD", iv)
  \/ \E p \in Payloads({"t7", "t8"}) : handleWebhook(p)
  \/ SendResponse

SpecShared == Init /\ [][NextShared]_vars

\* full syncs of the first user and webhook registrations of both users
\* before, during and after runs of the migration script
NextLegacy ==
  \/ MigrateStart
  \/ \E iv \in Ivs : MigrateRow(iv)
  \/ MigrateEnd
  \/ \E t \in Tasks, u \in Users : CtlSyncTransactions(t, u)
  \/ \E t \in Tasks, u \in AllUsers : CtlSetupWebhook(t, u)
  \/ \E t \in Tasks : FullSync(t)
  \/ \E t \in Tasks : SetupWebhook(t)
  \/ \E t \in Tasks : Return(t)

SpecLegacy == InitLegacy /\ [][NextLegacy]_vars

\* runs of the migration script, with saveToken requests and webhook
\* registrations of both users before, during and after them
NextMigrate ==
  \/ MigrateStart
  \/ \E iv \in Ivs : MigrateRow(iv)
  \/ MigrateEnd
  \/ \E u \in AllUsers, iv \in Ivs : saveToken(u, SavedBy(u), iv)
  \/ \E t \in Tasks, u \in AllUsers : CtlSetupWebhook(t, u)
  \/ \E t \in Tasks : SetupWebhook(t)
  \/ \E t \in Tasks : Return(t)
  \/ SendResponse

SpecMigrate == InitLegacy /\ [][NextMigrate]_vars

\* calls of the gateway with every answer of the upstream
NextGateway == \E op \in GatewayOps, answer \in Answers : GatewayCall(op, answer)

SpecGateway == InitGateway /\ [][NextGateway]_vars

\* CryptoService applied to every plaintext and stored value of the bounds
NextVault ==
  \/ \E p \in Plaintexts, iv \in Ivs : VaultEncrypt(p, iv)
  \/ \E s \in StoredForms : VaultDecrypt(s)
  \/ \E s \in StoredForms : VaultIsEncrypted(s)

SpecVault == InitVault /\ [][NextVault]_vars

\* the loop of splitIntoChunks run on every input of the bounds, a maximum
\* span of 0 days included; the thread that runs it keeps running
NextLoop ==
  \/ LoopIterate
  \/ LoopReturn

SpecLoop == InitLoop /\ [][NextLoop]_vars /\ WF_vars(NextLoop)

(***************************************************************************)
(* Properties.                                                             *)
(***************************************************************************)
InFlight(t) == task[t].pc \notin {"idle", "done", "raised"}

IsSync(t) == task[t].kind \in {"full", "inc"}

RowsWithId(table, id) == {r \in Rows(table) : r.monobankId = id}

OneRowPerId(table) ==
  \A r1 \in Rows(table) :
    /\ CopiesIn(r1, table) = 1
    /\ \A r2 \in Rows(table) : r1.monobankId = r2.monobankId => r1 = r2

\* a step in which the sync of slot t saved the transaction at the head of
\* its fetched list
SyncSaved(t) ==
  /\ task[t].pc \in {"fullUpsert", "incUpsert"}
  /\ task'[t].totalTransactions = task[t].totalTransactions + 1

\* a step in which the webhook handler saved the item of its payload
HookSaved == Ready /\ http'.op = "webhook" /\ http'.log = "saved"

\* the table after the step holds the item, and holds as many rows as
\* before when it held the item's id already
AppliedInPlace(id, time, holds) ==
  /\ \E r \in Rows(txs') : r.monobankId = id /\ r.time = time /\ r.hold \in holds
  /\ RowsWithId(txs, id) # {} => BagCardinality(txs') = BagCardinality(txs)

\* C1: after every step of any sequence of full syncs, incremental syncs and
\* webhook ingestions the Transaction table (empty at first) holds at most
\* one row per monobankId, and a step that saves an item whose id is stored
\* already sets that row's fields to the item's and adds no row.
C1_OneRecordPerId ==
  [][ /\ OneRowPerId(txs')
      /\ \A t \in AllTasks :
           SyncSaved(t) =>
             AppliedInPlace(Head(task[t].pending).id, Head(task[t].pending).time, BOOLEAN)
      /\ HookSaved =>
           AppliedInPlace(http'.req.item.id, http'.req.item.time, {http'.req.item.hold}) ]_vars

\* a finished incremental sync that had a cursor (so the table was not
\* empty when it began) saved three items and the table holds three rows
C1_Witness ==
  \E t \in AllTasks :
    /\ task[t].pc = "done" /\ task[t].kind = "inc"
    /\ task[t].totalTransactions = 3
    /\ BagCardinality(txs) = 3

\* C2: no two syncs of one user are in flight, each having called the
\* upstream, at the same time.
C2_OneSyncInFlightPerUser ==
  \A t1, t2 \in AllTasks :
    (t1 # t2 /\ IsSync(t1) /\ IsSync(t2) /\ InFlight(t1) /\ InFlight(t2)
       /\ task[t1].user = task[t2].user)
      => ~(task[t1].calls > 0 /\ task[t2].calls > 0)

\* the statement requests of a full sync: every date range, in order, for
\* every account, in order
FullRequests(r) ==
  [k \in 1..(Len(r.accts) * Len(r.ranges)) |->
     [ account |-> r.accts[((k - 1) \div Len(r.ranges)) + 1],
       from |-> r.ranges[((k - 1) % Len(r.ranges)) + 1].from,
       to |-> r.ranges[((k - 1) % Len(r.ranges)) + 1].to ]]

\* C3: a full sync raises only before its chunk loop (user lookup, client
\* info, saving an account), never because a statement fetch or a
\* transaction upsert failed; when it returns it has requested every chunk
\* of every account and tried to save every transaction it fetched.
C3_FullSyncToleratesFailures ==
  \A t \in AllTasks :
    LET r == task[t] IN
    r.kind = "full" =>
      /\ r.pc = "raised" => r.at \in {"fullFind", "fullClientInfo", "fullSaveAccount"}
      /\ r.pc = "done" =>
           /\ Len(r.ranges) = 3
           /\ r.reqs = FullRequests(r)
           /\ r.attempts = r.fetched

\* a full sync returned although a fetch failed (fewer items fetched than
\* the upstream holds) and an upsert failed
C3_Witness ==
  \E t \in AllTasks :
    LET r == task[t] IN
    /\ r.kind = "full" /\ r.pc = "done"
    /\ r.fetched < Cardinality({x \in UpstreamTxs : \E i \in 1..Len(r.accts) : x.account = r.accts[i]})
    /\ r.totalTransactions < r.attempts

\* C4: in a full sync every upstream call after the first is made after a
\* wait that followed the call before it.
C4_WaitBetweenCalls ==
  [][ \A t \in AllTasks :
        (task[t].kind = "full" /\ task[t].calls > 0 /\ task'[t].calls = task[t].calls + 1)
          => task[t].waited ]_vars

\* an incremental sync that has computed its window
IncWindowed(r) ==
  r.kind = "inc" /\ r.pc \in {"incSaveAccount", "incFetch", "incUpsert", "incWait", "done"}

\* C5: once an incremental sync with a cursor has computed its window,
\* fallbackTo31Days is true exactly when now - cursor is more than 31 days;
\* then every statement request is for [now - 31 days, now], and otherwise
\* every statement request is for [cursor, now].
C5_IncrementalWindow ==
  \A t \in AllTasks :
    LET r == task[t] IN
    IncWindowed(r) =>
      /\ r.fallback <=> (r.to - r.cursor > 31 * 86400)
      /\ \A i \in 1..Len(r.reqs) :
           /\ r.reqs[i].to = r.to
           /\ r.reqs[i].from = (IF r.fallback THEN r.to - 31 * 86400 ELSE r.cursor)

\* an incremental sync requested the last 31 days for both accounts, its
\* cursor being one second more than 31 days old
C5_Witness ==
  \E t \in AllTasks :
    LET r == task[t] IN
    /\ IncWindowed(r) /\ r.pc = "done" /\ r.fallback
    /\ r.to - r.cursor = 31 * 86400 + 1
    /\ Len(r.reqs) = 2

\* C6: a full sync, an incremental sync or a webhook registration that
\* looks up a user who has no row or no token raises NotFound in that step,
\* having made no upstream call, and the step writes nothing to the ledger.
C6_NotFoundBeforeAnyCall ==
  [][ \A t \in AllTasks :
        (task[t].pc \in {"fullFind", "incFind", "setupFind"}
           /\ ~HasToken(task[t].user) /\ task'[t] # task[t])
          => /\ task'[t].pc = "raised" /\ task'[t].err = "NotFound"
             /\ task'[t].calls = 0
             /\ accounts' = accounts /\ txs' = txs ]_vars

\* an incremental sync of a user without token has raised NotFound at its
\* user lookup, no call made and the ledger empty
C6_Witness ==
  \E t \in AllTasks :
    /\ task[t].pc = "raised" /\ task[t].err = "NotFound"
    /\ task[t].kind = "inc" /\ task[t].at = "incFind" /\ task[t].calls = 0
    /\ ~HasToken(task[t].user)
    /\ accounts = {} /\ txs = EmptyBag

\* C7: a saveToken whose verification call fails answers with the error and
\* leaves the User table and the stored tokens as they were; a token the
\* upstream rejects always fails the verification.
C7_RejectedSecretNotStored ==
  [][ (Ready /\ http'.op = "saveToken") =>
        /\ http'.req.token \notin ValidTokens => http'.status = 401
        /\ http'.status # 201 => (users' = users /\ tokens' = tokens) ]_vars

\* a rejected token was answered with 401 while the user's earlier token is
\* stored
C7_Witness ==
  /\ http.op = "saveToken" /\ http.status = 401
  /\ HasToken(http.req.clerkId)
  /\ ReadToken(RawToken(http.req.clerkId)) = "tokA"

\* C8 as claimed: every webhook request is answered 200.
C8_WebhookAlwaysOk == http.op = "webhook" => http.status = 200

\* C8 as amended: a webhook request is answered 200 when the event type is
\* unknown, when the account is unknown and when the upsert succeeded; when
\* the upsert failed the error is thrown on and the answer is 500.
C8_WebhookOkUnlessUpsertFails ==
  http.op = "webhook" =>
    /\ http.log \in {"unknownType", "noAccount", "saved", "failed"}
    /\ http.log \in {"unknownType", "noAccount", "saved"} => http.status = 200
    /\ http.log = "failed" => http.status = 500
    /\ http.req.type # "StatementItem" => http.status = 200
    /\ AccountsWithId(http.req.account) = {} => http.status = 200

\* a webhook whose upsert failed was answered 500
C8_Witness == http.op = "webhook" /\ http.log = "failed" /\ http.status = 500

\* C9: a webhook of another type than StatementItem, or for an account id
\* no Account row has, leaves the Account and Transaction tables as they
\* were and is answered 200.
C9_DroppedWebhookChangesNothing ==
  [][ (Ready /\ http'.op = "webhook"
         /\ (http'.req.type # "StatementItem" \/ AccountsWithId(http'.req.account) = {}))
        => (accounts' = accounts /\ txs' = txs /\ http'.status = 200) ]_vars

\* a webhook for the unknown account "zzz" was dropped while the ledger
\* holds accounts and transactions
C9_Witness ==
  /\ http.op = "webhook" /\ http.log = "noAccount" /\ http.req.account = "zzz"
  /\ accounts # {} /\ BagCardinality(txs) > 0

\* C10: for from < to (chunkDays positive) the chunks of splitIntoChunks
\* start at from, end at to, each ends where the next starts, and each is
\* non-empty and at most chunkDays long; for from >= to there is no chunk.
C10_ChunksCoverRange ==
  split.done =>
    LET c == split.chunks
        n == Len(split.chunks)
    IN IF split.fromTimestamp < split.toTimestamp
       THEN /\ n >= 1
            /\ c[1].from = split.fromTimestamp
            /\ c[n].to = split.toTimestamp
            /\ \A i \in 1..(n - 1) : c[i].to = c[i + 1].from
            /\ \A i \in 1..n :
                 c[i].from < c[i].to /\ c[i].to - c[i].from <= split.chunkDays * 86400
       ELSE c = <<>>

\* a range was split into several chunks, the last one shorter than the
\* others
C10_Witness ==
  /\ split.done /\ Len(split.chunks) >= 3
  /\ split.chunks[Len(split.chunks)].to - split.chunks[Len(split.chunks)].from
       < split.chunkDays * 86400

SplitTerminatesForPositiveSpan == (loop.chunkDays >= 1) => <>loop.done

AccountIndex(r, account) == CHOOSE k \in 1..Len(r.accts) : r.accts[k] = account

\* the statement requests a sync has made so far: by account in the order
\* of the list, and for one account by strictly increasing start time
RequestsInOrder(r) ==
  \A i \in 1..Len(r.reqs), j \in 1..Len(r.reqs) :
    i < j =>
      /\ AccountIndex(r, r.reqs[i].account) <= AccountIndex(r, r.reqs[j].account)
      /\ r.reqs[i].account = r.reqs[j].account => r.reqs[i].from < r.reqs[j].from

\* C13: at every step of a sync its statement requests so far are in the
\* order of the accounts and, for one account, of strictly increasing chunk
\* start; a step makes at most one upstream call, and makes it only when no
\* fetched transaction is left to save; a transaction is saved only while
\* its account is the one of the latest request.
C13_SequentialRequests ==
  [][ \A t \in AllTasks :
        LET r == task[t] IN
        /\ RequestsInOrder(task'[t])
        /\ task'[t].calls <= r.calls + 1
        /\ (IsSync(t) /\ task'[t].calls = r.calls + 1) => Len(r.pending) = 0
        /\ (r.pc \in {"fullUpsert", "incUpsert"}) =>
             /\ Len(r.reqs) > 0
             /\ Head(r.pending).account = r.reqs[Len(r.reqs)].account
             /\ r.accts[r.ai] = r.reqs[Len(r.reqs)].account ]_vars

\* a full sync returned after it requested the three chunks of each of the
\* two accounts and saved the three items it fetched
C13_Witness ==
  \E t \in AllTasks :
    /\ task[t].kind = "full" /\ task[t].pc = "done"
    /\ Len(task[t].reqs) = 6
    /\ task[t].reqs[3].account # task[t].reqs[4].account
    /\ task[t].totalTransactions = 3

\* an incremental sync that found the user and the token and is about to
\* look for the user's last transaction, of which there is none
AtDelegation(t) ==
  /\ task[t].kind = "inc" /\ task[t].pc = "incCursor"
  /\ HasToken(task[t].user)
  /\ UserTxs(task[t].user) = {}

\* C14: the step an incremental sync takes when the user has a token and no
\* stored transaction makes no upstream call and no write, and leaves the
\* request exactly where a call of syncTransactions for the user starts: the
\* calls, writes and result that follow are those of a full sync.
C14_DelegatesToFullSync ==
  [][ \A t \in AllTasks :
        (AtDelegation(t) /\ task'[t] # task[t]) =>
          /\ task'[t] = FullSyncCall(task[t].user)
          /\ UNCHANGED <<users, tokens, accounts, txs>> ]_vars

\* an incremental sync of a user with a token and an empty ledger stands at
\* the lookup of the last transaction
C14_Witness ==
  \E t \in AllTasks : AtDelegation(t) /\ task[t].calls = 0 /\ txs = EmptyBag

\* the status of the error kinds: InvalidRequest 400, InvalidCredential 401,
\* Forbidden 403, RateLimited 429, UpstreamUnavailable 503, UpstreamError 500
ClaimedKind(answer) ==
  IF ~answer.axios THEN 500
  ELSE CASE answer.status = 400 -> 400
         [] answer.status = 401 -> 401
         [] answer.status = 403 -> 403
         [] answer.status = 429 -> 429
         [] answer.status \in 500..599 -> 503
         [] OTHER -> 500

\* C15: a gateway call whose request failed throws, and throws the error of
\* the kind the upstream status determines: 400 InvalidRequest, 401
\* InvalidCredential, 403 Forbidden, 429 RateLimited, every 5xx
\* UpstreamUnavailable, anything else UpstreamError.
C15_ErrorClassification ==
  (gw.op \in GatewayOps /\ ~gw.answer.ok) =>
    /\ gw.outcome = "thrown"
    /\ gw.thrown = ClaimedKind(gw.answer)

\* a step in which saveToken stored the token and answers 201
TokenSaved == Ready /\ http'.op = "saveToken" /\ http'.status = 201

\* C16: after a successful saveToken the user has exactly one stored token;
\* its value has three hex fields, is not the plaintext, and decrypts to the
\* token that was saved (so it took the place of the one stored before);
\* and no user ever has more than one stored token.
C16_StoredTokenIsCiphertext ==
  [][ /\ \A u \in AllUsers : Cardinality({r \in tokens' : r.userId = u}) <= 1
      /\ TokenSaved =>
           LET rows == {r \in tokens' : r.userId = http'.req.clerkId} IN
           /\ Cardinality(rows) = 1
           /\ \A r \in rows :
                /\ isEncrypted(r.token)
                /\ r.token # Plain(http'.req.token)
                /\ decrypt(r.token) = http'.req.token ]_vars

\* saveToken answers 201 for a user whose earlier token was used by a sync
\* that stored transactions: the token now stored is the one of this call
C16_Witness ==
  /\ http.op = "saveToken" /\ http.status = 201
  /\ HasToken(http.req.clerkId)
  /\ UserTxs(http.req.clerkId) # {}

\* C17: decrypt applied to the value encrypt returned for a plaintext
\* returns that plaintext.
C17_RoundTrip ==
  vault.op = "decrypt" =>
    \A p \in Plaintexts, iv \in Ivs : vault.input = encrypt(p, iv) => vault.result = p

\* decrypt was applied to encrypt("tokA") of the second nonce and returned
\* "tokA"
C17_Witness ==
  /\ vault.op = "decrypt"
  /\ vault.input = encrypt("tokA", 1)
  /\ vault.result = "tokA"

WellFormed(stored) ==
  Len(stored) = PARTS_COUNT /\ \A k \in 1..Len(stored) : IsHex(stored[k])

\* C19: decrypt fails with the format error when the stored value has not
\* three fields or has a field that is not hex, fails with an integrity
\* error when the value is well formed and is not what encrypt returned,
\* and so returns a plaintext only for a value of encrypt.
C19_DecryptRejects ==
  vault.op = "decrypt" =>
    /\ ~WellFormed(vault.input) => vault.result = "FormatError"
    /\ (WellFormed(vault.input) /\ vault.input \notin Genuine) => vault.result = "IntegrityError"
    /\ vault.input \notin Genuine => vault.result \in {"FormatError", "IntegrityError"}

StoredIds(table) == {r.monobankId : r \in Rows(table)}

\* the rows of the id after the step are the one row `old` with the item's
\* time and one of the content values `holds`
UpdatedFrom(old, time, holds) ==
  \E h \in holds :
    RowsWithId(txs', old.monobankId) = {[old EXCEPT !.time = time, !.hold = h]}

\* C21: no step of a sync, a webhook ingestion or any other operation
\* removes a monobankId from the Transaction table, and a step that saves
\* an item whose id is stored already (with other content, such as hold
\* turned to settled) leaves that id's one row carrying the item's content.
C21_IdsOnlyGrow ==
  [][ /\ StoredIds(txs) \subseteq StoredIds(txs')
      /\ \A t \in AllTasks :
           SyncSaved(t) =>
             \A old \in RowsWithId(txs, Head(task[t].pending).id) :
               UpdatedFrom(old, Head(task[t].pending).time, BOOLEAN)
      /\ HookSaved =>
           \A old \in RowsWithId(txs, http'.req.item.id) :
             UpdatedFrom(old, http'.req.item.time, {http'.req.item.hold}) ]_vars

\* a sync has returned after saving its three items, and a webhook for one
\* of them, now settled, was saved after it: the table holds three rows and
\* the item's row is settled
C21_Witness ==
  /\ http.op = "webhook" /\ http.log = "saved" /\ http.req.item.hold = FALSE
  /\ \E t \in AllTasks :
       /\ task[t].pc = "done" /\ IsSync(t) /\ task[t].totalTransactions = 3
  /\ BagCardinality(txs) = 3
  /\ \A r \in RowsWithId(txs, http.req.item.id) : r.hold = FALSE

\* C22: in an incremental sync every statement request after the first is
\* made after a wait that followed the request before it, and the sync
\* waits only when another account is still to come.
C22_WaitBetweenAccounts ==
  [][ \A t \in AllTasks :
        task[t].kind = "inc" =>
          /\ (/\ Len(task[t].reqs) >= 1
              /\ Len(task'[t].reqs) = Len(task[t].reqs) + 1) => task[t].waited
          /\ task'[t].pc = "incWait" => task'[t].ai < Len(task'[t].accts) ]_vars

\* the k-th sync kept was a full sync without failure that began with an
\* empty Transaction table
CleanFromEmpty(k) ==
  /\ k \in 1..Len(runs)
  /\ runs[k].clean
  /\ k > 1 => runs[k - 1].empty

C24_RequestSpanAtMost31Days ==
  \A t \in AllTasks :
    \A i \in 1..Len(task[t].reqs) :
      task[t].reqs[i].to - task[t].reqs[i].from <= 31 * DaySeconds

\* an incremental sync whose cursor was more than 31 days old has requested
\* exactly the last 31 days
C24_Witness ==
  \E t \in AllTasks :
    /\ task[t].kind = "inc" /\ task[t].fallback
    /\ task[t].to - task[t].cursor > 31 * DaySeconds
    /\ \E i \in 1..Len(task[t].reqs) :
         task[t].reqs[i].to - task[t].reqs[i].from = 31 * DaySeconds

\* C25: with webhooks handled between any two steps of a sync of the same
\* user and no lock, the ledger holds one row per monobankId at all times,
\* a sync that saved everything it fetched ends with one row for each item
\* delivered to it, and a webhook that was saved leaves one row for its item.
C25_WebhookDuringSync ==
  /\ OneRowPerId(txs)
  /\ \A t \in AllTasks :
       SavedAll(task[t]) =>
         \A x \in Delivered(task[t]) : Cardinality(RowsWithId(txs, x.id)) = 1
  /\ (http.op = "webhook" /\ http.log = "saved") =>
       /\ Cardinality(RowsWithId(txs, http.req.item.id)) = 1
       /\ \A r \in RowsWithId(txs, http.req.item.id) :
            r.time = http.req.item.time /\ r.hold = http.req.item.hold

\* a webhook was saved while a sync of the same user stands before the
\* upsert of the same item, having saved another item already
C25_Witness ==
  /\ http.op = "webhook" /\ http.log = "saved"
  /\ \E t \in AllTasks :
       /\ task[t].pc \in {"fullUpsert", "incUpsert"}
       /\ task[t].totalTransactions >= 1
       /\ Head(task[t].pending).id = http.req.item.id
       /\ \E a \in accounts : a.userId = task[t].user /\ a.accountId = http.req.account

\* C26: when a full sync returned after a statement request of it failed
\* while it saved other items, and the incremental sync that comes next
\* fetches and saves everything it asks for, the items of the failed
\* request are stored when that incremental sync returns.
C26_FailedChunkRecovered ==
  \A k \in 1..Len(runs) :
    (/\ k + 1 <= Len(runs)
     /\ runs[k].kind = "full" /\ runs[k].fetchFailed
     /\ runs[k + 1].kind = "inc" /\ runs[k + 1].ok) =>
      runs[k].lost \subseteq runs[k + 1].ids

\* C30: every statement request a full or an incremental sync has made
\* has from < to, whatever the current time and the cursor are.
C30_ForwardWindow ==
  \A t \in AllTasks :
    \A i \in 1..Len(task[t].reqs) : task[t].reqs[i].from < task[t].reqs[i].to

\* C29: after every step of any sequence of syncs of any users and webhook
\* ingestions, the owner of every stored transaction is the owner of its
\* account, and a transaction that was stored before the step has the same
\* owner and the same account after it.
C29_OwnerFixed ==
  [][ /\ \A r \in Rows(txs') : r.account \in accounts' /\ r.userId = r.account.userId
      /\ \A r \in Rows(txs) :
           \A q \in RowsWithId(txs', r.monobankId) :
             q.userId = r.userId /\ q.account = r.account ]_vars

\* the sync of the second user has returned after saving items of the
\* account both users have, and every row is still the first user's
C29_Witness ==
  /\ \E t \in AllTasks :
       /\ task[t].user = "u2" /\ task[t].pc = "done" /\ IsSync(t)
       /\ task[t].totalTransactions >= 2
  /\ BagCardinality(txs) = 2
  /\ \A r \in Rows(txs) : r.userId = "u1" /\ r.account = AccountRow("u1", "d1")
  /\ AccountRow("u2", "d1") \in accounts

\* C27: when a run of the migration script has ended every MonobankToken
\* row is in encrypted form; a second run encrypts no row, changes no row
\* and ends having skipped every row; and whenever a run encrypts a row,
\* the value it read for that row was not in encrypted form.
C27_MigrationIdempotent ==
  [][ /\ (mig'.pc = "idle" /\ mig'.run >= 1) =>
           \A r \in tokens' : isEncrypted(r.token)
      /\ mig'.run >= 2 =>
           /\ mig'.encrypted = 0 /\ ~mig'.changed
           /\ mig'.pc = "idle" => mig'.skipped = mig'.found
           /\ mig' # mig => tokens' = tokens
      /\ mig'.encrypted = mig.encrypted + 1 =>
           /\ ~isEncrypted(Head(mig.todo).token)
           /\ \A r \in tokens' :
                r.userId = Head(mig.todo).userId => isEncrypted(r.token) ]_vars

\* the first run encrypted the two rows, both legacy, and the second run
\* has ended: it skipped both
C27_Witness ==
  /\ mig.pc = "idle" /\ mig.run = 2
  /\ mig.migrated = 2
  /\ mig.found = 2 /\ mig.skipped = 2 /\ mig.encrypted = 0

\* C28: a request that has called the upstream presents the token its
\* user saved, whether the row is a legacy plaintext, was encrypted by
\* saveToken or by the migration script; reading any stored row gives the
\* saved token, and no request fails in decrypt.
C28_CredentialIsSavedToken ==
  /\ \A r \in tokens : ReadToken(r.token) = SavedBy(r.userId)
  /\ \A t \in AllTasks :
       /\ (task[t].kind \in {"full", "inc", "setup"} /\ task[t].calls >= 1) =>
            task[t].token = SavedBy(task[t].user)
       /\ task[t].err # "Crypto"

\* a request of the first user has called the upstream with the token read
\* from a legacy row, while the second user's row, legacy at first, is
\* encrypted by the migration script
C28_Witness ==
  /\ \E t \in AllTasks :
       /\ task[t].user = "u1" /\ task[t].calls >= 1 /\ task[t].token = "tokC"
  /\ RawToken("u1") = Plain("tokC")
  /\ mig.migrated = 1
  /\ isEncrypted(RawToken("u2"))
====
